---- MODULE Spec2Model ----
(***************************************************************************)
(* A model of src/pgp_backends/sequoia_backend.rs: the SequoiaBackend      *)
(* (primary key, cipher suite, authoritative timestamp, packet cache) and  *)
(* its operations new, fingerprint, shuffle and get_armored_results.      *)
(*                                                                         *)
(* Representation notes.                                                   *)
(*  - A u32 is kept as the pair <<hi, lo>> of its 16-bit halves (its value *)
(*    is hi * 65536 + lo), so that the whole unsigned 32-bit range,        *)
(*    including the values a wrapping decrement produces, is represented   *)
(*    exactly.                                                             *)
(*  - Byte buffers are sequences of 0..255; Rust offsets are 0-based, so   *)
(*    the byte at offset k of buf is buf[k + 1].                           *)
(*  - The sequoia-openpgp library is outside the repository.  Its calls    *)
(*    are modelled by their documented effect: key generation yields a key *)
(*    whose creation time is the clock reading and whose material is an    *)
(*    opaque byte string (sizes scaled down); SHA-1 is a fixed             *)
(*    deterministic 20-byte digest function; every fallible library call   *)
(*    may fail, the failing call being an input of the operation.          *)
(***************************************************************************)
EXTENDS Integers, Sequences, FiniteSets, TLC

VARIABLES
    overflow_checks,  \* build profile: TRUE when integer overflow panics
    lifecycle,        \* "Unconstructed","Failed","Fresh","Searching","Finalized","Panicked"
    primary_key,      \* SequoiaBackend.primary_key
    cipher_suite,     \* SequoiaBackend.cipher_suite
    timestamp,        \* SequoiaBackend.timestamp (u32)
    packet_cache,     \* SequoiaBackend.packet_cache (Vec<u8>)
    new_result,       \* what new() returned: "none", "Ok", "KeyGenerationFailed"
    timestamp0,       \* history: timestamp recorded by new()
    cache0,           \* history: packet_cache built by new()
    key0,             \* history: primary_key generated by new()
    suite0,           \* history: cipher suite given to new()
    shuffles,         \* history: number of shuffle() calls that returned
    shuffled,         \* history: the packet cache after each shuffle() that returned
    fp_log,           \* history: fingerprint() results, each with the shuffle count at the call
    keygen_calls,     \* history: the generate_key calls made, in order
    keygen,           \* a generate_key call on its own: its arguments and what it returned
    finalize_calls,   \* history: number of get_armored_results calls
    finalize_uid,     \* history: the user id given to get_armored_results
    failed_step,      \* history: the call of get_armored_results that failed, or "none"
    cert,             \* transient: packets added to the certificate, in order
    result            \* what get_armored_results returned

vars == <<overflow_checks, lifecycle, primary_key, cipher_suite, timestamp,
          packet_cache, new_result, timestamp0, cache0, key0, suite0, shuffles,
          shuffled, fp_log, keygen_calls, keygen, finalize_calls, finalize_uid,
          failed_step, cert, result>>

backend == <<primary_key, cipher_suite, timestamp, packet_cache>>

----------------------------------------------------------------------------
(* Bounds of the model *)

MaxShuffles == 3
MaxFingerprints == 2
SearchShuffles == 1000

----------------------------------------------------------------------------
(* Unsigned integers and byte buffers *)

W8 == 256
W16 == W8 * W8

U32Zero == <<0, 0>>
U32Max == <<W16 - 1, W16 - 1>>

IsU32(w) == /\ w \in Seq(Int) /\ Len(w) = 2
            /\ w[1] \in 0..(W16 - 1) /\ w[2] \in 0..(W16 - 1)

(* u32 comparison *)
U32Leq(a, b) == a[1] < b[1] \/ (a[1] = b[1] /\ a[2] <= b[2])

(* The integer a - n for a u32 a and 0 <= n < 65536: the u32 of that value, *)
(* or, when the difference is negative, a pair that is no u32.              *)
U32MinusInt(a, n) ==
    IF a[2] >= n THEN <<a[1], a[2] - n>>
    ELSE IF a[1] > 0 THEN <<a[1] - 1, a[2] + W16 - n>>
    ELSE <<-1, a[2] + W16 - n>>

(* (a - n) modulo 2^32 *)
U32WrappingSub(a, n) ==
    IF a[2] >= n THEN <<a[1], a[2] - n>>
    ELSE <<(a[1] + W16 - 1) % W16, a[2] + W16 - n>>

(* BigEndian::write_u16 with the two bytes in the opposite order *)
write_u16_le(buf, off, v) ==
    [i \in 1..Len(buf) |->
        IF i = off + 1 THEN v % W8
        ELSE IF i = off + 2 THEN (v \div W8) % W8
        ELSE buf[i]]

(* BigEndian::write_u16(&mut buf[off..off+2], v) *)
write_u16(buf, off, v) ==
    [i \in 1..Len(buf) |->
        IF i = off + 1 THEN (v \div W8) % W8
        ELSE IF i = off + 2 THEN v % W8
        ELSE buf[i]]

(* BigEndian::write_u32 with the bytes in the opposite order *)
write_u32_le(buf, off, w) ==
    [i \in 1..Len(buf) |->
        IF i = off + 1 THEN w[2] % W8
        ELSE IF i = off + 2 THEN (w[2] \div W8) % W8
        ELSE IF i = off + 3 THEN w[1] % W8
        ELSE IF i = off + 4 THEN (w[1] \div W8) % W8
        ELSE buf[i]]

(* BigEndian::write_u32(&mut buf[off..off+4], w) *)
write_u32(buf, off, w) ==
    [i \in 1..Len(buf) |->
        IF i = off + 1 THEN (w[1] \div W8) % W8
        ELSE IF i = off + 2 THEN w[1] % W8
        ELSE IF i = off + 3 THEN (w[2] \div W8) % W8
        ELSE IF i = off + 4 THEN w[2] % W8
        ELSE buf[i]]

(* The u32 that the four bytes at offsets off..off+3 encode in big-endian *)
read_u32_be(buf, off) ==
    <<buf[off + 1] * W8 + buf[off + 2], buf[off + 3] * W8 + buf[off + 4]>>

(* The u16 that the two bytes at offsets off, off+1 encode in big-endian *)
read_u16_be(buf, off) == buf[off + 1] * W8 + buf[off + 2]

----------------------------------------------------------------------------
(* Algorithms, cipher suites and key generation *)

RSAs == {"RSA2048", "RSA3072", "RSA4096"}
Curves == {"Ed25519", "Cv25519", "NistP256", "NistP384", "NistP521"}
Algorithms == RSAs \cup Curves

(* The cipher suites constructed: a signing and an encryption algorithm.   *)
(* The last two name a curve that cannot play the role asked of it.        *)
CipherSuites ==
    {[signing |-> "Ed25519", encryption |-> "Cv25519"],
     [signing |-> "RSA2048", encryption |-> "RSA4096"],
     [signing |-> "NistP256", encryption |-> "NistP384"],
     [signing |-> "Ed25519", encryption |-> "Ed25519"],
     [signing |-> "Cv25519", encryption |-> "Cv25519"]}

get_signing_key_algorithm(suite) == suite.signing
(* the subkey generated with the suite's signing algorithm *)
get_encryption_key_algorithm_signing(suite) == suite.signing

get_encryption_key_algorithm(suite) == suite.encryption

(* A generator that accepts every curve for either role *)
EccSupported_any(curve, for_signing) == TRUE

(* Key4::generate_ecc(for_signing, curve): Ed25519 only signs, Cv25519     *)
(* only encrypts, the NIST curves do either.                               *)
EccSupported(curve, for_signing) ==
    CASE curve = "Ed25519" -> for_signing
      [] curve = "Cv25519" -> ~for_signing
      [] OTHER -> TRUE

(* The OpenPGP public-key algorithm identifier of the generated key *)
PkAlgoOf(algorithm, for_signing) ==
    CASE algorithm \in RSAs -> 1
      [] algorithm = "Ed25519" -> 22
      [] algorithm = "Cv25519" -> 18
      [] OTHER -> IF for_signing THEN 19 ELSE 18

(* Serialized size of the public-key material (scaled down) *)
MpisLen(algorithm) ==
    CASE algorithm = "RSA2048" -> 4
      [] algorithm = "RSA3072" -> 5
      [] algorithm = "RSA4096" -> 6
      [] algorithm = "Ed25519" -> 3
      [] algorithm = "Cv25519" -> 4
      [] algorithm = "NistP256" -> 3
      [] algorithm = "NistP384" -> 4
      [] OTHER -> 5

(* The random draws of the key generator *)
Seeds == {3, 200}

Mpis(algorithm, seed) ==
    [i \in 1..MpisLen(algorithm) |-> (seed + 41 * i + MpisLen(algorithm)) % W8]

NoKey == [alg |-> "none", pk_algo |-> 0, creation_time |-> U32Zero,
          mpis |-> <<>>, role |-> "none", seed |-> 0]

(* generate_key(algorithm, for_signing); now, seed and lib_ok are the clock, *)
(* the randomness and the success of the underlying generator.               *)
generate_key(algorithm, for_signing, now, seed, lib_ok) ==
    LET wrapped_ok ==
            /\ lib_ok
            /\ (algorithm \in Curves => EccSupported(algorithm, for_signing))
    IN  IF wrapped_ok
        THEN [ok |-> TRUE, error |-> "none",
              key |-> [alg |-> algorithm,
                       pk_algo |-> PkAlgoOf(algorithm, for_signing),
                       creation_time |-> now,
                       mpis |-> Mpis(algorithm, seed),
                       role |-> "Primary",
                       seed |-> seed]]
        ELSE [ok |-> FALSE, error |-> "KeyGenerationFailed", key |-> NoKey]

(* Clock readings at construction (seconds since the epoch, as u32       *)
(* halves): 0, 1, 256, 65536, 1793529344 (1 November 2026).                *)
Clock == {<<0, 0>>, <<0, 1>>, <<0, 256>>, <<1, 0>>, <<27367, 5632>>}

(* Clock readings at finalization *)
LaterClock == {<<27367, 9232>>}

----------------------------------------------------------------------------
(* Fingerprint computation *)

digest_size == 20

RECURSIVE absorb(_, _, _)
absorb(bytes, i, h) ==
    IF i > Len(bytes) THEN h
    ELSE absorb(bytes, i + 1, (h * 31 + bytes[i] + i) % 65521)

(* HashAlgorithm::SHA1 over the buffer: a deterministic 20-byte digest *)
sha1(bytes) ==
    [k \in 1..digest_size |-> absorb(bytes, 1, (k * 7919) % 65521) % W8]

HexDigits == <<"0", "1", "2", "3", "4", "5", "6", "7",
               "8", "9", "A", "B", "C", "D", "E", "F">>

LowerHexDigits == <<"0", "1", "2", "3", "4", "5", "6", "7",
                    "8", "9", "a", "b", "c", "d", "e", "f">>

(* The rendering with the digits a-f in lower case *)
to_hex_lower(digest) ==
    [i \in 1..(2 * Len(digest)) |->
        LET b == digest[(i + 1) \div 2]
        IN  IF i % 2 = 1 THEN LowerHexDigits[(b \div 16) + 1]
            ELSE LowerHexDigits[(b % 16) + 1]]

(* Fingerprint::from_bytes(&digest).to_hex(): two hex digits per byte,     *)
(* upper case (the library's canonical rendering)                          *)
to_hex(digest) ==
    [i \in 1..(2 * Len(digest)) |->
        LET b == digest[(i + 1) \div 2]
        IN  IF i % 2 = 1 THEN HexDigits[(b \div 16) + 1]
            ELSE HexDigits[(b % 16) + 1]]

(* The value fingerprint() returns for a packet cache *)
fingerprint_of(cache) == to_hex(sha1(cache))

(* The version-4 public-key packet of a key, as OpenPGP hashes it for the  *)
(* fingerprint: 0x99, two-byte length, version 4, creation time, algorithm *)
(* identifier, public-key material.                                        *)
v4_public_key_packet(key) ==
    LET len == 6 + Len(key.mpis)
    IN  <<153, (len \div W8) % W8, len % W8, 4,
          (key.creation_time[1] \div W8) % W8, key.creation_time[1] % W8,
          (key.creation_time[2] \div W8) % W8, key.creation_time[2] % W8,
          key.pk_algo>> \o key.mpis

----------------------------------------------------------------------------
(* Initial state: no backend constructed yet *)

NoSuite == [signing |-> "none", encryption |-> "none"]
NoBlock == [label |-> "none", packets |-> <<>>, altered |-> FALSE]
NoResult == [kind |-> "none", error |-> "none",
             armored_public |-> NoBlock, armored_private |-> NoBlock]

NoKeygen == [algorithm |-> "none", for_signing |-> FALSE, now |-> U32Zero,
             seed |-> 0, lib_ok |-> FALSE, returned |-> FALSE,
             out |-> [ok |-> FALSE, error |-> "none", key |-> NoKey]]

(* The backend's variables before construction *)
NoBackend ==
    /\ overflow_checks \in BOOLEAN
    /\ lifecycle = "Unconstructed"
    /\ primary_key = NoKey
    /\ cipher_suite = NoSuite
    /\ timestamp = U32Zero
    /\ packet_cache = <<>>
    /\ new_result = "none"
    /\ timestamp0 = U32Zero
    /\ cache0 = <<>>
    /\ key0 = NoKey
    /\ suite0 = NoSuite
    /\ shuffles = 0
    /\ shuffled = <<>>
    /\ fp_log = <<>>
    /\ keygen_calls = <<>>
    /\ finalize_calls = 0
    /\ finalize_uid = <<>>
    /\ failed_step = "none"
    /\ cert = <<>>
    /\ result = NoResult

Init ==
    /\ NoBackend
    /\ keygen = NoKeygen

----------------------------------------------------------------------------
(* SequoiaBackend::new *)

(* The packet cache left at its eight header bytes *)
build_packet_cache_header_only(key, ts) ==
    write_u32(write_u16(<<153, 0, 0, 4, 0, 0, 0, 0>>, 1, 6), 4, ts)

(* The packet cache new() builds for a primary key and its timestamp *)
build_packet_cache(key, ts) ==
    LET c0 == <<153, 0, 0, 4, 0, 0, 0, 0>>
        packet_length == (6 + (Len(key.mpis) % W16)) % W16
        c1 == write_u16(c0, 1, packet_length)
        c2 == write_u32(c1, 4, ts)
        c3 == Append(c2, key.pk_algo)
    IN  c3 \o key.mpis

new ==
    /\ lifecycle = "Unconstructed"
    /\ \E suite \in CipherSuites, now \in Clock, seed \in Seeds, lib_ok \in BOOLEAN :
         LET algorithm == get_signing_key_algorithm(suite)
             g == generate_key(algorithm, TRUE, now, seed, lib_ok)
             ts == g.key.creation_time
         IN  /\ keygen_calls' = Append(keygen_calls,
                    [algorithm |-> algorithm, for_signing |-> TRUE, during |-> "new"])
             /\ IF g.ok
                THEN /\ lifecycle' = "Fresh"
                     /\ new_result' = "Ok"
                     /\ primary_key' = g.key
                     /\ cipher_suite' = suite
                     /\ timestamp' = ts
                     /\ packet_cache' = build_packet_cache(g.key, ts)
                     /\ timestamp0' = ts
                     /\ cache0' = build_packet_cache(g.key, ts)
                     /\ key0' = g.key
                     /\ suite0' = suite
                ELSE /\ lifecycle' = "Failed"
                     /\ new_result' = "KeyGenerationFailed"
                     /\ UNCHANGED <<primary_key, cipher_suite, timestamp, packet_cache,
                                    timestamp0, cache0, key0, suite0>>
    /\ UNCHANGED <<overflow_checks, shuffles, shuffled, fp_log, keygen, finalize_calls,
                   finalize_uid, failed_step, cert, result>>

----------------------------------------------------------------------------
(* SequoiaBackend::fingerprint *)

Live == lifecycle \in {"Fresh", "Searching"}

(* A fingerprint() that advances the search as a side effect *)
fingerprint_shuffling ==
    /\ Live
    /\ Len(fp_log) < MaxFingerprints
    /\ timestamp' = U32WrappingSub(timestamp, 1)
    /\ packet_cache' = write_u32(packet_cache, 4, timestamp')
    /\ fp_log' = Append(fp_log, [n |-> shuffles, cache |-> packet_cache,
                                  fp |-> fingerprint_of(packet_cache')])
    /\ lifecycle' = "Searching"
    /\ UNCHANGED <<overflow_checks, primary_key, cipher_suite, new_result, timestamp0,
                   cache0, key0, suite0, shuffles, shuffled, keygen_calls, keygen,
                   finalize_calls, finalize_uid, failed_step, cert, result>>

fingerprint ==
    /\ Live
    /\ Len(fp_log) < MaxFingerprints
    /\ fp_log' = Append(fp_log, [n |-> shuffles, cache |-> packet_cache,
                                  fp |-> fingerprint_of(packet_cache)])
    /\ lifecycle' = "Searching"
    /\ UNCHANGED <<overflow_checks, primary_key, cipher_suite, timestamp, packet_cache,
                   new_result, timestamp0, cache0, key0, suite0, shuffles, shuffled,
                   keygen_calls, keygen, finalize_calls, finalize_uid, failed_step,
                   cert, result>>

----------------------------------------------------------------------------
(* SequoiaBackend::shuffle *)

(* self.timestamp += 1 *)
shuffle_timestamp_up(ts) ==
    IF ts = U32Max THEN U32Zero
    ELSE IF ts[2] = W16 - 1 THEN <<ts[1] + 1, 0>> ELSE <<ts[1], ts[2] + 1>>

(* self.timestamp = self.timestamp.saturating_sub(1) *)
shuffle_timestamp_saturating(ts) ==
    IF ts = U32Zero THEN U32Zero ELSE U32WrappingSub(ts, 1)

(* self.timestamp -= 1, where the subtraction does not panic *)
shuffle_timestamp(ts) == U32WrappingSub(ts, 1)

(* the timestamp written one byte early *)
shuffle_cache_at_3(cache, ts) == write_u32(cache, 3, ts)

(* BigEndian::write_u32(&mut self.packet_cache[4..8], self.timestamp) *)
shuffle_cache(cache, ts) == write_u32(cache, 4, ts)

(* One shuffle() call, the calls made so far being fewer than limit *)
shuffle_call(limit) ==
    /\ Live
    /\ shuffles < limit
    /\ IF timestamp = U32Zero /\ overflow_checks
       THEN \* attempt to subtract with overflow: the call panics
            /\ lifecycle' = "Panicked"
            /\ UNCHANGED <<timestamp, packet_cache, shuffles, shuffled>>
       ELSE /\ timestamp' = shuffle_timestamp(timestamp)
            /\ packet_cache' = shuffle_cache(packet_cache, timestamp')
            /\ shuffles' = shuffles + 1
            /\ shuffled' = Append(shuffled, packet_cache')
            /\ lifecycle' = "Searching"
    /\ UNCHANGED <<overflow_checks, primary_key, cipher_suite, new_result, timestamp0,
                   cache0, key0, suite0, fp_log, keygen_calls, keygen, finalize_calls,
                   finalize_uid, failed_step, cert, result>>

shuffle == shuffle_call(MaxShuffles)

----------------------------------------------------------------------------
(* SequoiaBackend::get_armored_results *)

(* Option<String> of UserID::get_id(): <<>> is None, <<s>> is Some(s) *)
UserIDs == {<<>>, <<"Alice <alice@example.com>">>, <<"Bob">>}

NoSubject == [kind |-> "none", key |-> NoKey, uid |-> ""]
KeySubject(kind, key) == [kind |-> kind, key |-> key, uid |-> ""]
UidSubject(s) == [kind |-> "UserID", key |-> NoKey, uid |-> s]

Packet(tag, sig_type, subject, creation_time, hash_algo, key_flags, pref_hash, pref_sym) ==
    [tag |-> tag, sig_type |-> sig_type, subject |-> subject,
     creation_time |-> creation_time, hash_algo |-> hash_algo,
     key_flags |-> key_flags, pref_hash |-> pref_hash, pref_sym |-> pref_sym]

(* Packet::SecretKey / Packet::SecretSubkey / Packet::from(uid_packet) *)
SecretKeyPacket(key) ==
    Packet("SecretKey", "none", KeySubject("PrimaryKey", key), key.creation_time,
           "none", {}, <<>>, <<>>)
SecretSubkeyPacket(key) ==
    Packet("SecretSubkey", "none", KeySubject("Subkey", key), key.creation_time,
           "none", {}, <<>>, <<>>)
UserIDPacket(s) ==
    Packet("UserID", "none", UidSubject(s), U32Zero, "none", {}, <<>>, <<>>)

(* A component the certificate could not parse, as cert.unknowns() yields *)
UnknownPacket ==
    Packet("Unknown", "none", NoSubject, U32Zero, "none", {}, <<>>, <<>>)

(* SignatureBuilder::new(SignatureType::DirectKey) ... sign_direct_key *)
DirectKeySignature(key, creation_time) ==
    Packet("Signature", "DirectKey", KeySubject("PrimaryKey", key), creation_time,
           "SHA512", {"certification", "signing"},
           <<"SHA512", "SHA256">>, <<"AES256", "AES128">>)

(* The certification built from the direct-key signature without set_type *)
UidSignature_not_retyped(direct_key_signature, s, creation_time) ==
    [direct_key_signature EXCEPT
        !.subject = UidSubject(s),
        !.creation_time = creation_time,
        !.hash_algo = "SHA512"]

(* SignatureBuilder::from(direct_key_signature) retyped, bound over the uid *)
UidSignature(direct_key_signature, s, creation_time) ==
    [direct_key_signature EXCEPT
        !.sig_type = "PositiveCertification",
        !.subject = UidSubject(s),
        !.creation_time = creation_time,
        !.hash_algo = "SHA512"]

(* The binding signature without set_signature_creation_time: the builder *)
(* then stamps it with the clock at signing                                *)
SubkeySignature_now(subkey, creation_time) ==
    Packet("Signature", "SubkeyBinding", KeySubject("Subkey", subkey),
           CHOOSE now \in LaterClock : TRUE,
           "SHA512", {"storage_encryption"}, <<>>, <<>>)

(* SignatureBuilder::new(SignatureType::SubkeyBinding) ... bind *)
SubkeySignature(subkey, creation_time) ==
    Packet("Signature", "SubkeyBinding", KeySubject("Subkey", subkey), creation_time,
           "SHA512", {"storage_encryption"}, <<>>, <<>>)

(* The fallible calls of get_armored_results, in program order; "validate" *)
(* is the unknowns() test.                                                 *)
Steps == <<"set_creation_time", "into_keypair", "direct_key_signature",
           "cert_from_packets", "uid_signature", "uid_merge", "generate_subkey",
           "subkey_parts_into_secret", "subkey_set_creation_time",
           "subkey_signature", "subkey_merge", "validate", "armor_public",
           "utf8_public", "serialize_tsk", "armor_private">>

StepNo(s) == CHOOSE i \in 1..Len(Steps) : Steps[i] = s
FailPoints == {"none"} \cup {Steps[i] : i \in 1..Len(Steps)}
UidSteps == {"uid_signature", "uid_merge"}

(* Step s was executed and succeeded, when the call that fails is f *)
Passed(s, f) == f = "none" \/ StepNo(s) < StepNo(f)

ErrorOf(f) ==
    CASE f = "generate_subkey" -> "KeyGenerationFailed"
      [] f = "validate" -> "InvalidKeyGenerated"
      [] f = "utf8_public" -> "FromUtf8Error"
      [] OTHER -> "SigningError"

(* cert.armored(): the certificate without secret key material *)
PublicView(packets) ==
    [i \in 1..Len(packets) |->
        IF packets[i].tag = "SecretKey" THEN [packets[i] EXCEPT !.tag = "PublicKey"]
        ELSE IF packets[i].tag = "SecretSubkey" THEN [packets[i] EXCEPT !.tag = "PublicSubkey"]
        ELSE packets[i]]

(* The packets, with the subkey group merged before the user id group *)
CertPackets_subkey_first(key, uid, subkey, creation_time, f) ==
    LET dks == DirectKeySignature(key, creation_time)
        primary_group ==
            IF Passed("cert_from_packets", f)
            THEN <<SecretKeyPacket(key), dks>> ELSE <<>>
        uid_group ==
            IF uid # <<>> /\ Passed("uid_merge", f)
            THEN <<UserIDPacket(uid[1]), UidSignature(dks, uid[1], creation_time)>>
            ELSE <<>>
        subkey_group ==
            IF Passed("subkey_merge", f)
            THEN <<SecretSubkeyPacket(subkey), SubkeySignature(subkey, creation_time)>>
            ELSE <<>>
    IN  primary_group \o subkey_group \o uid_group

(* The packets, with a user id group merged also when no user id is given *)
CertPackets_always_uid(key, uid, subkey, creation_time, f) ==
    LET dks == DirectKeySignature(key, creation_time)
        id == IF uid = <<>> THEN "" ELSE uid[1]
        primary_group ==
            IF Passed("cert_from_packets", f)
            THEN <<SecretKeyPacket(key), dks>> ELSE <<>>
        uid_group ==
            IF Passed("uid_merge", f)
            THEN <<UserIDPacket(id), UidSignature(dks, id, creation_time)>>
            ELSE <<>>
        subkey_group ==
            IF Passed("subkey_merge", f)
            THEN <<SecretSubkeyPacket(subkey), SubkeySignature(subkey, creation_time)>>
            ELSE <<>>
    IN  primary_group \o uid_group \o subkey_group

(* The packets of the certificate when the failing call is f *)
CertPackets(key, uid, subkey, creation_time, f) ==
    LET dks == DirectKeySignature(key, creation_time)
        primary_group ==
            IF Passed("cert_from_packets", f)
            THEN <<SecretKeyPacket(key), dks>> ELSE <<>>
        uid_group ==
            IF uid # <<>> /\ Passed("uid_merge", f)
            THEN <<UserIDPacket(uid[1]), UidSignature(dks, uid[1], creation_time)>>
            ELSE <<>>
        subkey_group ==
            IF Passed("subkey_merge", f)
            THEN <<SecretSubkeyPacket(subkey), SubkeySignature(subkey, creation_time)>>
            ELSE <<>>
        \* the unknowns() test finds a component exactly when one is there
        unknowns == IF f = "validate" THEN <<UnknownPacket>> ELSE <<>>
    IN  primary_group \o uid_group \o subkey_group \o unknowns

(* self.primary_key.set_creation_time(creation_time) left out *)
commit_creation_time_skipped(key, creation_time) == key

(* self.primary_key.set_creation_time(creation_time) *)
commit_creation_time(key, creation_time) ==
    [key EXCEPT !.creation_time = creation_time]

OkResult(packets, private_utf8) ==
    [kind |-> "Ok", error |-> "none",
     armored_public |-> [label |-> "PGP PUBLIC KEY BLOCK",
                         packets |-> PublicView(packets), altered |-> FALSE],
     armored_private |-> [label |-> "PGP PRIVATE KEY BLOCK",
                          packets |-> packets, altered |-> ~private_utf8]]

ErrResult(f) ==
    [kind |-> "Err", error |-> ErrorOf(f),
     armored_public |-> NoBlock, armored_private |-> NoBlock]

(* The value returned, with the unknowns() test left out *)
finalize_result_unvalidated(f, packets, private_utf8) ==
    IF f \in {"none", "validate"} THEN OkResult(packets, private_utf8) ELSE ErrResult(f)

(* The value returned, with a failed merge of the user id ignored *)
finalize_result_lenient(f, packets, private_utf8) ==
    IF f \in {"none", "uid_merge"} THEN OkResult(packets, private_utf8) ELSE ErrResult(f)

(* The value returned: every failing call returns its error (the ? operator *)
(* and the Err arm), Ok(ArmoredKey) is returned at the end only.            *)
finalize_result(f, packets, private_utf8) ==
    IF f = "none" THEN OkResult(packets, private_utf8) ELSE ErrResult(f)

(* The call, with the backend borrowed instead of consumed *)
get_armored_results_borrowing ==
    /\ Live
    /\ finalize_calls < 2
    /\ finalize_calls' = finalize_calls + 1
    /\ result' = ErrResult("into_keypair")
    /\ failed_step' = "into_keypair"
    /\ UNCHANGED <<overflow_checks, lifecycle, primary_key, cipher_suite, timestamp,
                   packet_cache, new_result, timestamp0, cache0, key0, suite0,
                   shuffles, shuffled, fp_log, keygen_calls, keygen, finalize_uid,
                   cert>>

get_armored_results ==
    /\ Live
    /\ \E uid \in UserIDs, fail \in FailPoints, now \in LaterClock,
          seed \in Seeds \ {primary_key.seed}, private_utf8 \in BOOLEAN :
         LET creation_time == timestamp
             key == IF Passed("set_creation_time", fail)
                    THEN commit_creation_time(primary_key, creation_time)
                    ELSE primary_key
             enc == get_encryption_key_algorithm(cipher_suite)
             reaches_subkey == Passed("generate_subkey", fail) \/ fail = "generate_subkey"
             g == generate_key(enc, FALSE, now, seed, fail # "generate_subkey")
             \* the call that actually fails
             f == IF reaches_subkey /\ ~g.ok THEN "generate_subkey" ELSE fail
             subkey == [g.key EXCEPT !.role = "Subordinate",
                                     !.creation_time = creation_time]
             packets == CertPackets(key, uid, subkey, creation_time, f)
         IN  /\ (fail \in UidSteps => uid # <<>>)
             /\ (private_utf8 = FALSE => fail = "none")
             /\ primary_key' = key
             /\ cert' = packets
             /\ finalize_uid' = uid
             /\ failed_step' = f
             /\ keygen_calls' =
                    IF reaches_subkey
                    THEN Append(keygen_calls,
                            [algorithm |-> enc, for_signing |-> FALSE, during |-> "finalize"])
                    ELSE keygen_calls
             /\ result' = finalize_result(f, packets, private_utf8)
    /\ lifecycle' = "Finalized"
    /\ finalize_calls' = finalize_calls + 1
    /\ UNCHANGED <<overflow_checks, cipher_suite, timestamp, packet_cache, new_result,
                   timestamp0, cache0, key0, suite0, shuffles, shuffled, fp_log, keygen>>

----------------------------------------------------------------------------
(* The specification *)

Next == new \/ fingerprint \/ shuffle \/ get_armored_results

Spec == Init /\ [][Next]_vars

----------------------------------------------------------------------------
(* generate_key on its own: the arguments are drawn initially, one call    *)
(* applies the function.                                                   *)

KeygenInputs ==
    {[NoKeygen EXCEPT !.algorithm = a, !.for_signing = fs, !.now = now,
                      !.seed = seed, !.lib_ok = ok] :
        a \in Algorithms, fs \in BOOLEAN, now \in Clock \cup LaterClock,
        seed \in Seeds, ok \in BOOLEAN}

KeygenInit ==
    /\ NoBackend
    /\ keygen \in KeygenInputs

generate_key_call ==
    /\ keygen.algorithm # "none"
    /\ ~keygen.returned
    /\ keygen' = [keygen EXCEPT
                    !.returned = TRUE,
                    !.out = generate_key(keygen.algorithm, keygen.for_signing,
                                         keygen.now, keygen.seed, keygen.lib_ok)]
    /\ UNCHANGED <<overflow_checks, lifecycle, primary_key, cipher_suite, timestamp,
                   packet_cache, new_result, timestamp0, cache0, key0, suite0,
                   shuffles, shuffled, fp_log, keygen_calls, finalize_calls,
                   finalize_uid, failed_step, cert, result>>

KeygenNext == generate_key_call

KeygenSpec == KeygenInit /\ [][KeygenNext]_vars

-----------------------------------------------------------------------------
(* A search: one backend is constructed and shuffled SearchShuffles times *)

search_shuffle == shuffle_call(SearchShuffles)

SearchNext == new \/ search_shuffle

SearchSpec == Init /\ [][SearchNext]_vars

----------------------------------------------------------------------------
(* Properties *)

Constructed == lifecycle \in {"Fresh", "Searching", "Finalized", "Panicked"}

(* C1, as stated: for every N >= 0, after N shuffle() calls the timestamp  *)
(* is the integer (timestamp at construction) - N and bytes [4..8) of the  *)
(* packet cache hold it in big-endian order.                               *)
C1_AsStated ==
    Constructed =>
        /\ timestamp = U32MinusInt(timestamp0, shuffles)
        /\ read_u32_be(packet_cache, 4) = timestamp

(* C1, amended: after N shuffle() calls that returned, the timestamp is    *)
(* (timestamp at construction) - N whenever N does not exceed the          *)
(* timestamp at construction, and that difference modulo 2^32 otherwise;   *)
(* in both cases bytes [4..8) of the packet cache hold the timestamp in    *)
(* big-endian order.                                                       *)
C1_ShuffleDecrements ==
    Constructed =>
        /\ IsU32(U32MinusInt(timestamp0, shuffles)) =>
               timestamp = U32MinusInt(timestamp0, shuffles)
        /\ timestamp = U32WrappingSub(timestamp0, shuffles)
        /\ read_u32_be(packet_cache, 4) = timestamp

C1_Witness ==
    /\ lifecycle = "Searching"
    /\ timestamp0 = <<1, 0>>
    /\ shuffles = 3
    /\ timestamp = <<0, 65533>>
    /\ SubSeq(packet_cache, 5, 8) = <<0, 0, 255, 253>>

(* C2: in every state of a constructed backend, bytes [4..8) of the packet *)
(* cache decode, big-endian, to the timestamp field.                       *)
C2_CacheMirrorsTimestamp ==
    Constructed =>
        /\ Len(packet_cache) >= 8
        /\ read_u32_be(packet_cache, 4) = timestamp

C2_Witness ==
    /\ lifecycle = "Searching"
    /\ shuffles = 2
    /\ Len(fp_log) = 2
    /\ fp_log[1].n = 0 /\ fp_log[2].n = 1
    /\ timestamp = <<0, 254>>
    /\ SubSeq(packet_cache, 5, 8) = <<0, 0, 0, 254>>

(* C3: while the backend is searched, the packet cache keeps the length it *)
(* had after construction and every byte at an offset outside [4, 8), and  *)
(* the primary key and the cipher suite are those of construction.         *)
C3_ShuffleFrame ==
    Live =>
        /\ Len(packet_cache) = Len(cache0)
        /\ \A off \in 0..(Len(cache0) - 1) :
               off \notin 4..7 => packet_cache[off + 1] = cache0[off + 1]
        /\ primary_key = key0
        /\ cipher_suite = suite0

C3_Witness ==
    /\ Live
    /\ shuffles = 3
    /\ packet_cache # cache0
    /\ SubSeq(packet_cache, 1, 4) = SubSeq(cache0, 1, 4)
    /\ SubSeq(packet_cache, 9, Len(packet_cache)) = SubSeq(cache0, 9, Len(cache0))

(* C4: a fingerprint() call leaves timestamp, packet cache, primary key    *)
(* and cipher suite unchanged, and the value it returns equals the value   *)
(* of every earlier call made on an equal packet cache, in particular of   *)
(* every earlier call with no shuffle() in between.                        *)
C4_FingerprintPure ==
    [][fp_log' # fp_log =>
          /\ backend' = backend
          /\ LET last == fp_log'[Len(fp_log')]
             IN  \A i \in 1..Len(fp_log) :
                    (fp_log[i].n = last.n \/ fp_log[i].cache = last.cache)
                        => fp_log[i].fp = last.fp]_vars

C4_Witness ==
    /\ Len(fp_log) = 2
    /\ shuffles = 1
    /\ fp_log[1].n = 1 /\ fp_log[2].n = 1
    /\ fp_log[1].fp = fp_log[2].fp
    /\ Len(fp_log[2].fp) = 40

(* C5: get_armored_results is called at most once, from Fresh or           *)
(* Searching, and once it has been called no shuffle(), fingerprint() or   *)
(* further get_armored_results happens: Finalized has no way out.          *)
C5_OneShot ==
    [][/\ finalize_calls' <= 1
       /\ finalize_calls' # finalize_calls => lifecycle \in {"Fresh", "Searching"}
       /\ finalize_calls' # finalize_calls => lifecycle' = "Finalized"
       /\ lifecycle = "Finalized" =>
              /\ lifecycle' = "Finalized"
              /\ shuffles' = shuffles
              /\ fp_log' = fp_log
              /\ finalize_calls' = finalize_calls]_vars

C5_Witness ==
    /\ lifecycle = "Finalized"
    /\ finalize_calls = 1
    /\ result.kind = "Err"
    /\ shuffles = 2
    /\ Len(fp_log) = 1

(* The finalized primary key: the key of the certificate's first packet *)
FinalPrimaryKey == cert[1].subject.key

(* C6, as stated: a backend finalized after N shuffle() calls yields a     *)
(* primary key whose creation time is the timestamp, that timestamp being  *)
(* the integer (timestamp at construction) - N; its version-4 public-key   *)
(* packet equals the packet cache and its fingerprint equals the value     *)
(* fingerprint() returned last before finalization.                        *)
C6_AsStated ==
    result.kind = "Ok" =>
        /\ FinalPrimaryKey.creation_time = timestamp
        /\ timestamp = U32MinusInt(timestamp0, shuffles)
        /\ v4_public_key_packet(FinalPrimaryKey) = packet_cache
        /\ fp_log # <<>> =>
               fingerprint_of(v4_public_key_packet(FinalPrimaryKey))
                   = fp_log[Len(fp_log)].fp

(* C6, amended: the creation time of the finalized primary key is the      *)
(* timestamp at finalization, which is (timestamp at construction) - N     *)
(* modulo 2^32; its version-4 public-key packet equals the packet cache;   *)
(* its fingerprint is the value fingerprint() returns for that cache, and  *)
(* so equals the value returned last before finalization when no shuffle() *)
(* followed that call.                                                     *)
C6_RoundTrip ==
    result.kind = "Ok" =>
        /\ FinalPrimaryKey.creation_time = timestamp
        /\ timestamp = U32WrappingSub(timestamp0, shuffles)
        /\ v4_public_key_packet(FinalPrimaryKey) = packet_cache
        /\ (fp_log # <<>> /\ fp_log[Len(fp_log)].n = shuffles) =>
               fingerprint_of(v4_public_key_packet(FinalPrimaryKey))
                   = fp_log[Len(fp_log)].fp

C6_Witness ==
    /\ result.kind = "Ok"
    /\ timestamp0 = <<1, 0>>
    /\ shuffles = 3
    /\ Len(fp_log) = 2
    /\ fp_log[2].n = 3
    /\ FinalPrimaryKey.creation_time = <<0, 65533>>
    /\ key0.creation_time = <<1, 0>>
    /\ fingerprint_of(v4_public_key_packet(FinalPrimaryKey)) = fp_log[2].fp
    /\ fp_log[1].fp # fp_log[2].fp

Shape(packets) ==
    [i \in 1..Len(packets) |-> <<packets[i].tag, packets[i].sig_type>>]

ExpectedShape(uid) ==
    <<<<"SecretKey", "none">>, <<"Signature", "DirectKey">>>>
    \o (IF uid # <<>>
        THEN <<<<"UserID", "none">>, <<"Signature", "PositiveCertification">>>>
        ELSE <<>>)
    \o <<<<"SecretSubkey", "none">>, <<"Signature", "SubkeyBinding">>>>

(* C7: on a successful finalize the packets were added in the order        *)
(* secret primary key, direct-key signature, then (only with a user id)    *)
(* identity packet, identity certification, then secret subkey,            *)
(* subkey-binding signature; every signature comes right after the packet  *)
(* it certifies.                                                           *)
C7_PacketOrder ==
    result.kind = "Ok" =>
        /\ Shape(cert) = ExpectedShape(finalize_uid)
        /\ \A i \in 1..Len(cert) :
               cert[i].tag = "Signature" =>
                   /\ i > 1
                   /\ cert[i - 1].tag # "Signature"
                   /\ cert[i].subject = cert[i - 1].subject

C7_Witness ==
    /\ result.kind = "Ok"
    /\ finalize_uid = <<"Bob">>
    /\ Len(cert) = 6
    /\ cert[3].subject.uid = "Bob"
    /\ cert[4].subject.uid = "Bob"
    /\ cert[5].tag = "SecretSubkey"

Positions(packets, tag, sig_type) ==
    {i \in 1..Len(packets) : packets[i].tag = tag /\ packets[i].sig_type = sig_type}

(* C8: after a successful finalize without a user id the certificate, and  *)
(* the public block made from it, hold no identity packet and no identity  *)
(* certification, exactly one direct-key signature and exactly one         *)
(* subkey-binding signature.                                               *)
C8_NoIdentity ==
    (result.kind = "Ok" /\ finalize_uid = <<>>) =>
        \A packets \in {cert, result.armored_public.packets} :
            /\ \A i \in 1..Len(packets) : packets[i].tag # "UserID"
            /\ Positions(packets, "Signature", "PositiveCertification") = {}
            /\ Cardinality(Positions(packets, "Signature", "DirectKey")) = 1
            /\ Cardinality(Positions(packets, "Signature", "SubkeyBinding")) = 1

C8_Witness ==
    /\ result.kind = "Ok"
    /\ finalize_uid = <<>>
    /\ Len(cert) = 4
    /\ Len(result.armored_public.packets) = 4
    /\ shuffles = 1

(* C9: after a successful finalize with user id s the certificate holds    *)
(* exactly one identity packet, whose content is s, exactly one            *)
(* PositiveCertification signature, which is over s, and exactly one       *)
(* direct-key signature, which is another packet.                          *)
C9_IdentityBinding ==
    (result.kind = "Ok" /\ finalize_uid # <<>>) =>
        LET s == finalize_uid[1]
            ids == Positions(cert, "UserID", "none")
            certs == Positions(cert, "Signature", "PositiveCertification")
            directs == Positions(cert, "Signature", "DirectKey")
        IN  /\ Cardinality(ids) = 1
            /\ \A i \in ids : cert[i].subject = UidSubject(s)
            /\ Cardinality(certs) = 1
            /\ \A i \in certs : cert[i].subject = UidSubject(s)
            /\ Cardinality(directs) = 1
            /\ \A i \in certs, j \in directs : i # j /\ cert[i] # cert[j]

C9_Witness ==
    /\ result.kind = "Ok"
    /\ finalize_uid = <<"Alice <alice@example.com>">>
    /\ cert[3].tag = "UserID"
    /\ cert[3].subject.uid = "Alice <alice@example.com>"
    /\ cert[4].sig_type = "PositiveCertification"
    /\ cert[2].sig_type = "DirectKey"

(* C10: get_armored_results returns an error and no armored block whenever *)
(* one of its calls fails; it returns an ArmoredKey only when every call   *)
(* succeeded, and the ArmoredKey then holds the public and the private     *)
(* block of the complete certificate.                                      *)
C10_AllOrNothing ==
    lifecycle = "Finalized" =>
        /\ result.kind \in {"Ok", "Err"}
        /\ failed_step # "none" =>
               /\ result.kind = "Err"
               /\ result.error # "none"
               /\ result.armored_public = NoBlock
               /\ result.armored_private = NoBlock
        /\ result.kind = "Ok" =>
               /\ failed_step = "none"
               /\ result.armored_public.label = "PGP PUBLIC KEY BLOCK"
               /\ result.armored_private.label = "PGP PRIVATE KEY BLOCK"
               /\ Shape(cert) = ExpectedShape(finalize_uid)
               /\ result.armored_private.packets = cert
               /\ Len(result.armored_public.packets) = Len(cert)

C10_Witness ==
    /\ lifecycle = "Finalized"
    /\ failed_step = "subkey_merge"
    /\ finalize_uid # <<>>
    /\ Len(cert) = 4
    /\ result.kind = "Err"
    /\ result.armored_public = NoBlock


(* cert.unknowns() *)
Unknowns(packets) == {i \in 1..Len(packets) : packets[i].tag = "Unknown"}

(* C11: when the certificate holds an unknown packet after the subkey     *)
(* merge, get_armored_results returns InvalidKeyGenerated and no armored   *)
(* block; armored output exists only for a certificate without unknown     *)
(* packets.                                                                *)
C11_UnknownsRejected ==
    lifecycle = "Finalized" =>
        /\ Unknowns(cert) # {} =>
               /\ result.kind = "Err"
               /\ result.error = "InvalidKeyGenerated"
               /\ result.armored_public = NoBlock
               /\ result.armored_private = NoBlock
        /\ result.kind = "Ok" =>
               /\ Unknowns(cert) = {}
               /\ Unknowns(result.armored_public.packets) = {}
               /\ Unknowns(result.armored_private.packets) = {}

C11_Witness ==
    /\ lifecycle = "Finalized"
    /\ failed_step = "validate"
    /\ Unknowns(cert) = {7}
    /\ finalize_uid = <<"Bob">>
    /\ result.error = "InvalidKeyGenerated"
    /\ result.armored_private = NoBlock


(* C12: new() either returns a backend, Fresh, whose packet cache holds    *)
(* the creation time, the algorithm identifier and the whole public-key    *)
(* material of the generated primary key, or returns KeyGenerationFailed   *)
(* and no backend: then no key, cipher suite, timestamp or cache exists.   *)
C12_Construction ==
    /\ (new_result = "none") <=> (lifecycle = "Unconstructed")
    /\ (new_result = "KeyGenerationFailed") <=> (lifecycle = "Failed")
    /\ new_result = "KeyGenerationFailed" =>
           /\ primary_key = NoKey /\ key0 = NoKey
           /\ cipher_suite = NoSuite
           /\ timestamp = U32Zero
           /\ packet_cache = <<>> /\ cache0 = <<>>
    /\ new_result = "Ok" =>
           /\ Constructed
           /\ key0 # NoKey /\ key0.role = "Primary" /\ key0.mpis # <<>>
           /\ timestamp0 = key0.creation_time
           /\ Len(cache0) = 9 + Len(key0.mpis)
           /\ read_u32_be(cache0, 4) = key0.creation_time
           /\ cache0[9] = key0.pk_algo
           /\ SubSeq(cache0, 10, Len(cache0)) = key0.mpis
    /\ lifecycle = "Fresh" =>
           /\ packet_cache = cache0
           /\ primary_key = key0
           /\ timestamp = timestamp0
           /\ cipher_suite = suite0

C12_Witness ==
    /\ lifecycle = "Failed"
    /\ new_result = "KeyGenerationFailed"
    /\ keygen_calls = <<[algorithm |-> "Cv25519", for_signing |-> TRUE, during |-> "new"]>>
    /\ primary_key = NoKey
    /\ packet_cache = <<>>


(* C13, as stated: after any sequence of shuffle() calls, from any initial *)
(* timestamp including 0, the timestamp is at most the timestamp recorded  *)
(* at construction.                                                        *)
C13_AsStated ==
    Constructed => U32Leq(timestamp, timestamp0)

(* C13, amended: the timestamp is at most the timestamp recorded at        *)
(* construction as long as no more shuffle() calls returned than that      *)
(* timestamp counts seconds, and always in a build with overflow checks    *)
(* (the call at timestamp 0 panics and changes nothing); a call that       *)
(* returns at timestamp 0 has wrapped to a later time.                     *)
C13_NotLaterUntilUnderflow ==
    Constructed =>
        /\ (IsU32(U32MinusInt(timestamp0, shuffles)) \/ overflow_checks) =>
               U32Leq(timestamp, timestamp0)
        /\ ~IsU32(U32MinusInt(timestamp0, shuffles)) =>
               /\ ~overflow_checks
               /\ ~U32Leq(timestamp, timestamp0)

C13_Witness ==
    /\ overflow_checks
    /\ lifecycle = "Panicked"
    /\ timestamp0 = <<0, 1>>
    /\ shuffles = 1
    /\ timestamp = U32Zero
    /\ read_u32_be(packet_cache, 4) = U32Zero


DecimalChars == {"0", "1", "2", "3", "4", "5", "6", "7", "8", "9"}
LowerHexChars == DecimalChars \cup {"a", "b", "c", "d", "e", "f"}
UpperHexChars == DecimalChars \cup {"A", "B", "C", "D", "E", "F"}

(* The value of a hexadecimal digit of either case *)
HexValue(c) ==
    CHOOSE v \in 0..15 : HexDigits[v + 1] = c \/ LowerHexDigits[v + 1] = c

(* The bytes a string of hexadecimal digit pairs spells *)
HexDecode(str) ==
    [k \in 1..(Len(str) \div 2) |->
        16 * HexValue(str[2 * k - 1]) + HexValue(str[2 * k])]

(* The values fingerprint() returned are examined while the backend is     *)
(* alive; get_armored_results adds none.                                   *)
(* C14, as stated: every value fingerprint() returned is 40 characters,    *)
(* each a lowercase hexadecimal digit, spelling the 20-byte digest of the  *)
(* whole packet cache.                                                     *)
C14_AsStated ==
    Live => \A i \in 1..Len(fp_log) :
        /\ Len(fp_log[i].fp) = 40
        /\ \A k \in 1..Len(fp_log[i].fp) : fp_log[i].fp[k] \in LowerHexChars
        /\ HexDecode(fp_log[i].fp) = sha1(fp_log[i].cache)

(* C14, amended: every value fingerprint() returned is 40 characters, each *)
(* a digit 0-9 or an uppercase letter A-F, spelling the 20-byte digest of  *)
(* the whole packet cache.                                                 *)
C14_FingerprintFormat ==
    Live => \A i \in 1..Len(fp_log) :
        /\ Len(fp_log[i].fp) = 40
        /\ \A k \in 1..Len(fp_log[i].fp) : fp_log[i].fp[k] \in UpperHexChars
        /\ Len(sha1(fp_log[i].cache)) = 20
        /\ HexDecode(fp_log[i].fp) = sha1(fp_log[i].cache)

C14_Witness ==
    /\ Len(fp_log) = 1
    /\ shuffles = 2
    /\ Len(fp_log[1].fp) = 40
    /\ \E k \in 1..40 : fp_log[1].fp[k] \in {"A", "B", "C", "D", "E", "F"}
    /\ fp_log[1].cache = packet_cache


(* A curve asked for a role it cannot play *)
RoleMismatch(algorithm, for_signing) ==
    \/ algorithm = "Cv25519" /\ for_signing
    \/ algorithm = "Ed25519" /\ ~for_signing

(* Public-key algorithms that sign (ECDSA 19, EdDSA 22); ECDH is 18 *)
SigningPkAlgos == {19, 22}

(* C15: generate_key returns KeyGenerationFailed and no key for a curve    *)
(* whose role does not match for_signing, and for every failure of the     *)
(* underlying generator; a curve key it returns has the capability asked   *)
(* for; for the RSA variants the result is the same for both values of     *)
(* for_signing.                                                            *)
C15_NoSilentDowngrade ==
    keygen.returned =>
        LET a == keygen.algorithm
            fs == keygen.for_signing
            out == keygen.out
        IN  /\ out.ok <=> (out.error = "none")
            /\ ~out.ok => (out.error = "KeyGenerationFailed" /\ out.key = NoKey)
            /\ RoleMismatch(a, fs) => ~out.ok
            /\ ~keygen.lib_ok => ~out.ok
            /\ (out.ok /\ a \in Curves) =>
                   /\ out.key.alg = a
                   /\ (out.key.pk_algo \in SigningPkAlgos) <=> fs
            /\ a \in RSAs =>
                   out = generate_key(a, ~fs, keygen.now, keygen.seed, keygen.lib_ok)

C15_Witness ==
    /\ keygen.returned
    /\ keygen.algorithm = "Cv25519"
    /\ keygen.for_signing
    /\ keygen.lib_ok
    /\ keygen.out.error = "KeyGenerationFailed"
    /\ keygen.out.key = NoKey


C17_KeygenOnce ==
    /\ Len(keygen_calls) <= 2
    /\ lifecycle # "Unconstructed" =>
           /\ Len(keygen_calls) >= 1
           /\ keygen_calls[1].for_signing
           /\ keygen_calls[1].during = "new"
    /\ Constructed =>
           /\ keygen_calls[1].algorithm = suite0.signing
           /\ primary_key.mpis = key0.mpis
           /\ primary_key.alg = suite0.signing
    /\ lifecycle \in {"Fresh", "Searching", "Panicked"} =>
           /\ Len(keygen_calls) = 1
           /\ primary_key = key0
    /\ Len(keygen_calls) = 2 =>
           /\ lifecycle = "Finalized"
           /\ keygen_calls[2] = [algorithm |-> suite0.encryption,
                                 for_signing |-> FALSE, during |-> "finalize"]
    /\ result.kind = "Ok" =>
           /\ Len(keygen_calls) = 2
           /\ \A i \in Positions(cert, "SecretSubkey", "none") :
                  /\ cert[i].subject.key.role = "Subordinate"
                  /\ cert[i].subject.key.alg = suite0.encryption

C17_Witness ==
    /\ result.kind = "Ok"
    /\ shuffles = 3
    /\ Len(fp_log) = 2
    /\ Len(keygen_calls) = 2
    /\ suite0 = [signing |-> "RSA2048", encryption |-> "RSA4096"]
    /\ keygen_calls[2].algorithm = "RSA4096"
    /\ primary_key.mpis = key0.mpis


(* C18: in every certificate get_armored_results produces, the creation    *)
(* time of the primary key, of the subkey, of the direct-key signature, of *)
(* the identity certification (when present) and of the subkey-binding     *)
(* signature all equal the backend's timestamp at the call.                *)
C18_OneCreationTime ==
    result.kind = "Ok" =>
        /\ Positions(cert, "SecretKey", "none") # {}
        /\ Positions(cert, "SecretSubkey", "none") # {}
        /\ Positions(cert, "Signature", "DirectKey") # {}
        /\ Positions(cert, "Signature", "SubkeyBinding") # {}
        /\ finalize_uid # <<>> => Positions(cert, "Signature", "PositiveCertification") # {}
        /\ \A i \in 1..Len(cert) :
               /\ cert[i].tag \in {"SecretKey", "SecretSubkey"} =>
                      /\ cert[i].subject.key.creation_time = timestamp
                      /\ cert[i].creation_time = timestamp
               /\ cert[i].tag = "Signature" => cert[i].creation_time = timestamp

C18_Witness ==
    /\ result.kind = "Ok"
    /\ finalize_uid = <<"Alice <alice@example.com>">>
    /\ timestamp0 = <<0, 256>>
    /\ shuffles = 2
    /\ timestamp = <<0, 254>>
    /\ cert[4].creation_time = <<0, 254>>
    /\ cert[5].subject.key.creation_time = <<0, 254>>
    /\ cert[6].creation_time = <<0, 254>>


(* C19: in every state of a constructed backend the packet cache has the   *)
(* version-4 public-key packet layout: byte 0 is 0x99, byte 3 is 4, byte 8 *)
(* is the primary key's algorithm identifier, the bytes from offset 9 on   *)
(* are the serialized public-key material, and the big-endian 16-bit value *)
(* in bytes [1..3) is 6 plus the size of that material, which is the cache *)
(* length minus 3.                                                         *)
C19_CacheLayout ==
    Constructed =>
        /\ Len(packet_cache) >= 9
        /\ packet_cache[1] = 153
        /\ packet_cache[4] = 4
        /\ packet_cache[9] = primary_key.pk_algo
        /\ SubSeq(packet_cache, 10, Len(packet_cache)) = primary_key.mpis
        /\ read_u16_be(packet_cache, 1) = 6 + Len(primary_key.mpis)
        /\ read_u16_be(packet_cache, 1) = Len(packet_cache) - 3

C19_Witness ==
    /\ lifecycle = "Searching"
    /\ shuffles = 3
    /\ primary_key.alg = "RSA2048"
    /\ Len(primary_key.mpis) = MpisLen("RSA2048")
    /\ Len(packet_cache) = 9 + MpisLen("RSA2048")
    /\ read_u16_be(packet_cache, 1) = 6 + MpisLen("RSA2048")
    /\ packet_cache[9] = 1


(* C20: across SearchShuffles (1,000) consecutive shuffle() calls on one   *)
(* backend, the packet cache contents that fingerprint() hashes after each *)
(* call are pairwise distinct, and they differ in bytes [4..8).            *)
C20_SearchDistinct ==
    Len(shuffled) = SearchShuffles =>
        /\ Cardinality({SubSeq(shuffled[i], 5, 8) : i \in 1..Len(shuffled)})
               = SearchShuffles
        /\ Cardinality({shuffled[i] : i \in 1..Len(shuffled)}) = SearchShuffles

C20_Witness ==
    /\ lifecycle = "Searching"
    /\ ~overflow_checks
    /\ timestamp0 = <<0, 256>>
    /\ shuffles = SearchShuffles
    /\ Len(shuffled) = SearchShuffles
    /\ shuffled[256] = write_u32(cache0, 4, U32Zero)
    /\ shuffled[257] = write_u32(cache0, 4, U32Max)
    /\ packet_cache = shuffled[SearchShuffles]

====
